---- MODULE Spec2Model ----
(***************************************************************************)
(* mediasync-client: the synchronisation pipeline of src/main.go and the   *)
(* report package of src/pkg/config/parser.go.                             *)
(*                                                                         *)
(* Strings are sequences of one-character strings.  A run is one process   *)
(* invocation of main(); several invocations share the lock file, the      *)
(* local filesystem and the remote store.                                  *)
(***************************************************************************)
EXTENDS Integers, Sequences, FiniteSets, TLC

\* ------------------------------------------------------------------ bounds
\* Number of invocations of the program that may exist.
NumRuns == 2
\* Longest listing the remote answers with.
MaxFiles == 2
\* Number of chunks io.Copy moves for a complete file body.
BodyLen == 2
\* Number of distinct values randomString can return.
NumPostfix == 1
\* findLocal on its own: the longest remote path, the longest RemotePath of
\* a mapping, the longest mapping list.
MaxStrLen == 3
MaxPrefixLen == 1
MaxMappings == 2
\* The calls of the environment that return an error in one behaviour.
MaxFailures == 2

Procs == 1..NumRuns
Postfixes == 1..NumPostfix

\* ----------------------------------------------------------------- strings
HasPrefix(s, prefix) ==
    /\ Len(prefix) <= Len(s)
    /\ SubSeq(s, 1, Len(prefix)) = prefix

RECURSIVE ReplaceAll(_, _, _)
ReplaceAll(s, old, new) ==
    IF old = <<>>
    THEN IF s = <<>>
         THEN new
         ELSE new \o <<Head(s)>> \o ReplaceAll(Tail(s), old, new)
    ELSE IF s = <<>>
         THEN <<>>
         ELSE IF HasPrefix(s, old)
              THEN new \o ReplaceAll(SubSeq(s, Len(old) + 1, Len(s)), old, new)
              ELSE <<Head(s)>> \o ReplaceAll(Tail(s), old, new)

\* for _, p := range c.RootMapping { if HasPrefix { localFile = ReplaceAll } }
RECURSIVE findLocalFrom(_, _, _)
findLocalFrom(f, mapping, localFile) ==
    IF mapping = <<>>
    THEN localFile
    ELSE LET p == Head(mapping)
         IN  findLocalFrom(f, Tail(mapping),
                 IF HasPrefix(f, p.RemotePath)
                 THEN ReplaceAll(f, p.RemotePath, p.LocalPath)
                 ELSE localFile)

findLocal(f, mapping) == findLocalFrom(f, mapping, <<>>)

\* path.Base: "" -> ".", trailing slashes stripped, the part after the last
\* slash, "/" when only slashes were given.
RECURSIVE StripTrailingSlashes(_)
StripTrailingSlashes(s) ==
    IF s # <<>> /\ s[Len(s)] = "/"
    THEN StripTrailingSlashes(SubSeq(s, 1, Len(s) - 1))
    ELSE s

RECURSIVE AfterLastSlash(_)
AfterLastSlash(s) ==
    IF \E i \in 1..Len(s) : s[i] = "/"
    THEN AfterLastSlash(Tail(s))
    ELSE s

Base(s) ==
    IF s = <<>>
    THEN <<".">>
    ELSE LET t == StripTrailingSlashes(s)
         IN  IF t = <<>> THEN <<"/">> ELSE AfterLastSlash(t)

\* ------------------------------------------------------------------ report
\* The grave accent, which a string literal of this language cannot hold.
Backtick == "U+0060"

EscapeChars ==
    {"\\", "!", "\"", "#", "$", "%", "&", "'", "(", ")", "*", "+", ",", ".",
     "/", ":", ";", "<", "=", ">", "?", "@", "[", "]", "^", "_", Backtick,
     "{", "|", "}", "~", "-"}

\* Mutant of needsEscape: the backslash itself is not escaped.
needsEscapeButBackslash(r) == r \in EscapeChars \ {"\\"}

needsEscape(r) == r \in EscapeChars

\* A string is a sequence of characters in UTF-8 and of bytes that are part
\* of no valid encoding.  for _, c := range in decodes: a byte that is not
\* valid UTF-8 gives the rune U+FFFD, and the next iteration starts one byte
\* on; string(c) is the encoding of that rune.
InvalidByte == "0xFF"
RuneError == "U+FFFD"
DecodeRune(b) == IF b = InvalidByte THEN RuneError ELSE b

RECURSIVE escape(_)
escape(in) ==
    IF in = <<>>
    THEN <<>>
    ELSE LET c == DecodeRune(Head(in))
         IN  (IF needsEscape(c) THEN <<"\\">> ELSE <<>>)
             \o <<c>> \o escape(Tail(in))

\* The literals of the format strings, character by character.
TitleText ==
    <<"*", "S", "y", "n", "c", "h", "r", "o", "n", "i", "s", "a", "t", "i",
          "o", "n", " ", "c", "o", "m", "p", "l", "e", "t", "e", "*", "\n">>
FilesHeaderText ==
    <<"\n", "*", "F", "i", "l", "e", "s", " ", "d", "o", "w", "n", "l", "o",
          "a", "d", "e", "d", ":", "*", "\n">>
ErrorsHeaderText ==
    <<"\n", "*", "E", "r", "r", "o", "r", "s", " ", "o", "c", "c", "u", "r",
          "r", "e", "d", ":", "*", "\n">>
BulletText == <<"\\", "-", " ">>
NewLine == <<"\n">>

ListErrText ==
    <<"c", "o", "u", "l", "d", "n", "'", "t", " ", "g", "e", "t", " ", "f",
          "i", "l", "e", " ", "l", "i", "s", "t", ":", " ">>
MapErrText ==
    <<"c", "o", "u", "l", "d", "n", "'", "t", " ", "f", "i", "n", "d", " ",
          "c", "o", "n", "f", "i", "g", " ", "f", "o", "r", " ", "r", "e",
          "m", "o", "t", "e", " ", "f", "i", "l", "e", ":", " ">>
DownloadErrText ==
    <<"c", "o", "u", "l", "d", "n", "'", "t", " ", "d", "o", "w", "n", "l",
          "o", "a", "d", " ">>
DeleteErrText ==
    <<"f", "a", "i", "l", "e", "d", " ", "t", "o", " ", "d", "e", "l", "e",
          "t", "e", " ">>

\* c.Remote, the base of every URL.
Remote == <<"h", ":", "/", "/", "r">>

\* createURL: u.Path = path.Join(u.Path, rPath), for a base without a path.
createURL(rPath) == Remote \o rPath

\* err.Error() of the errors main hands to AddError.  The cause the
\* environment reports is the stage that failed.
ErrorText(e) ==
    CASE e.stage = "list" -> ListErrText \o e.cause
      [] e.stage = "map" -> MapErrText \o <<"{">> \o e.file \o <<"}">>
      [] e.stage = "delete" ->
            DeleteErrText \o createURL(e.file) \o <<":", " ">> \o e.cause
      [] OTHER ->
            DownloadErrText \o createURL(e.file) \o <<":", " ">> \o e.cause

RECURSIVE FileEntries(_)
FileEntries(fs) ==
    IF fs = <<>>
    THEN <<>>
    ELSE BulletText \o escape(Head(fs)) \o NewLine \o FileEntries(Tail(fs))

\* Mutant of ErrorEntries: the errors are listed last recorded first.
RECURSIVE ErrorEntriesReversed(_)
ErrorEntriesReversed(es) ==
    IF es = <<>>
    THEN <<>>
    ELSE ErrorEntriesReversed(Tail(es))
         \o BulletText \o escape(ErrorText(Head(es))) \o NewLine

RECURSIVE ErrorEntries(_)
ErrorEntries(es) ==
    IF es = <<>>
    THEN <<>>
    ELSE BulletText \o escape(ErrorText(Head(es))) \o NewLine
         \o ErrorEntries(Tail(es))

\* The text SendReport builds; only evaluated when a list is non-empty.
ReportMessage(dl, errs) ==
    TitleText
    \o (IF Len(dl) > 0 THEN FilesHeaderText \o FileEntries(dl) ELSE <<>>)
    \o (IF Len(errs) > 0 THEN ErrorsHeaderText \o ErrorEntries(errs) ELSE <<>>)

\* ------------------------------------------------------- pipeline inputs
\* c.RootMapping of the configuration the runs read.
RootMapping == << [RemotePath |-> <<"/", "a">>, LocalPath |-> <<"/", "d">>] >>

\* The web paths the remote may list: one under a mapped prefix, one not.
WebPaths == { <<"/", "a", "/", "b">>, <<"/", "x">> }

LocalPaths == {findLocal(f, RootMapping) : f \in WebPaths} \ {<<>>}

RECURSIVE SeqsUpTo(_, _)
SeqsUpTo(S, n) ==
    IF n = 0
    THEN {<<>>}
    ELSE LET shorter == SeqsUpTo(S, n - 1)
         IN  shorter \cup {Append(s, x) : s \in shorter, x \in S}

\* The values json.Unmarshal can give files.
Listings == SeqsUpTo(WebPaths, MaxFiles)

\* A file of a filesystem: absent, or present with its data (chunks).
Absent == [exists |-> FALSE, data |-> <<>>]
FileOf(d) == [exists |-> TRUE, data |-> d]

\* The bytes the remote store holds for a web path, as the chunks io.Copy
\* moves; the body of a non-success answer; what a destination held before.
Content(f) == [i \in 1..BodyLen |-> <<f, i>>]
ErrorPage == << <<<<"e", "r", "r">>, 1>> >>
OldData == << <<<<"o", "l", "d">>, 1>> >>

StatusOK == 200
StatusServerError == 500
Statuses == {StatusOK, StatusServerError}

\* The body the remote sends for GET {remote}{webPath} with a status.
ResponseBody(f, status) ==
    IF status = StatusOK THEN Content(f) ELSE ErrorPage

NoResp == [status |-> 0, body |-> <<>>]
NoErr == [stage |-> "none", file |-> <<>>, cause |-> <<>>]
Err(stage, f) == [stage |-> stage, file |-> f, cause |-> <<"E">>]

TmpNames == LocalPaths \X Postfixes

\* The body of the answer to GET {remote}/fileinfo: text that is no JSON, a
\* JSON value that is no array, null, or an array of objects, each with a
\* web_path string or without the field; or a body whose read fails.
JsonObject(f) == [field |-> TRUE, web_path |-> f]
JsonEmptyObject == [field |-> FALSE, web_path |-> <<>>]
JsonArray(objects) == [kind |-> "array", items |-> objects]
JsonOther(kind) == [kind |-> kind, items |-> <<>>]

ListBodies ==
    {JsonOther(k) : k \in {"unreadable", "malformed", "object", "null"}}
    \cup {JsonArray([i \in 1..Len(l) |-> JsonObject(l[i])]) : l \in Listings}
    \cup {JsonArray(<<JsonEmptyObject>>)}

NoListResp == [transport |-> "none", status |-> 0, body |-> JsonOther("none")]

ListResponses ==
    {[transport |-> "error", status |-> 0, body |-> JsonOther("none")]}
    \cup [transport : {"ok"}, status : Statuses, body : ListBodies]

\* json.Unmarshal(buf.Bytes(), &files): an error for what is no JSON or no
\* array; nil for null; an object without web_path gives the zero WebPath.
Unmarshal(body) ==
    [err |-> body.kind \in {"malformed", "object"},
     files |-> [i \in 1..Len(body.items) |->
                  IF body.items[i].field
                  THEN body.items[i].web_path
                  ELSE <<>>]]

\* getFiles, lines 82-101: the cases in which it returns an error.
getFilesFails(r) ==
    \/ r.transport = "error"
    \/ r.body.kind = "unreadable"
    \/ Unmarshal(r.body).err

VARIABLES
    pc,          \* where each run is
    lockOwner,   \* the run whose pid the lock file holds, 0 without a file
    defers,      \* main's deferred calls, in the order they were registered
    panicking,   \* a panic is unwinding main
    files,       \* the listing, idx the position of the for loop in it
    idx,
    downloaded,  \* Reporter.downloaded
    errors,      \* Reporter.errors
    local,       \* downloadFile's local
    tmp,         \* the postfix of tmpFile, 0 before it is chosen
    outOpen,     \* output is open
    resp,        \* the response to the file GET
    dlErr,       \* the error downloadFile is returning
    rmErr,       \* os.Remove(tmpFile) failed; the code drops its error
    preLocal,    \* what local held when downloadFile was called
    localFS,     \* the destination paths
    tmpFS,       \* the temporary files of the destination directories
    events,      \* what each run did to the world, in order
    listResp,    \* getFiles: the answer to the listing GET
    rIn,         \* findLocal on its own: the arguments, the result
    rOut,
    rpc,
    eIn,         \* escape on its own: the argument, the result
    eOut,
    epc,
    failures     \* the calls of the environment that have returned an error

procVars == <<files, idx, downloaded, errors>>
dlVars == <<local, tmp, outOpen, resp, dlErr, rmErr, preLocal>>
resolveVars == <<rIn, rOut, rpc>>
escapeVars == <<eIn, eOut, epc>>
vars == <<pc, lockOwner, defers, panicking, files, idx, downloaded, errors,
          local, tmp, outOpen, resp, dlErr, rmErr, preLocal, localFS, tmpFS,
          events, listResp, rIn, rOut, rpc, eIn, eOut, epc, failures>>

Event(kind, arg) == [kind |-> kind, arg |-> arg]
Log(p, kind, arg) == [events EXCEPT ![p] = Append(@, Event(kind, arg))]

CountKind(log, kind) ==
    Cardinality({i \in 1..Len(log) : log[i].kind = kind})

Terminal == {"done", "crashed"}

InitPipeline ==
    /\ pc = [p \in Procs |-> "start"]
    /\ lockOwner = 0
    /\ defers = [p \in Procs |-> <<>>]
    /\ panicking = [p \in Procs |-> FALSE]
    /\ files = [p \in Procs |-> <<>>]
    /\ idx = [p \in Procs |-> 0]
    /\ downloaded = [p \in Procs |-> <<>>]
    /\ errors = [p \in Procs |-> <<>>]
    /\ local = [p \in Procs |-> <<>>]
    /\ tmp = [p \in Procs |-> 0]
    /\ outOpen = [p \in Procs |-> FALSE]
    /\ resp = [p \in Procs |-> NoResp]
    /\ dlErr = [p \in Procs |-> NoErr]
    /\ rmErr = [p \in Procs |-> FALSE]
    /\ preLocal = [p \in Procs |-> Absent]
    /\ localFS \in [LocalPaths -> {Absent, FileOf(OldData)}]
    /\ tmpFS = [n \in TmpNames |-> Absent]
    /\ events = [p \in Procs |-> <<>>]
    /\ listResp = [p \in Procs |-> NoListResp]
    /\ failures = 0

InitResolveIdle ==
    /\ rIn = [f |-> <<>>, mapping |-> <<>>]
    /\ rOut = <<>>
    /\ rpc = "idle"

InitEscapeIdle ==
    /\ eIn = <<>>
    /\ eOut = <<>>
    /\ epc = "idle"

Init == InitPipeline /\ InitResolveIdle /\ InitEscapeIdle

\* ------------------------------------------------- findLocal on its own
Chars == {"/", "a"}
\* The LocalPath values tried: none, one without and one with a character of
\* the remote paths.
LocalPrefixes == {<<>>, <<"d">>, <<"/", "a">>}

ResolveInputs ==
    [f : SeqsUpTo(Chars, MaxStrLen),
     mapping : SeqsUpTo([RemotePath : SeqsUpTo(Chars, MaxPrefixLen),
                         LocalPath : LocalPrefixes], MaxMappings)]

InitResolve ==
    /\ InitPipeline
    /\ localFS = [l \in LocalPaths |-> Absent]
    /\ rIn \in ResolveInputs
    /\ rOut = <<>>
    /\ rpc = "call"
    /\ InitEscapeIdle

\* getFile, line 177: localFile := findLocal(f.WebPath, c).
Resolve ==
    /\ rpc = "call"
    /\ rOut' = findLocal(rIn.f, rIn.mapping)
    /\ rpc' = "returned"
    /\ UNCHANGED <<pc, lockOwner, defers, panicking, procVars, dlVars,
                   localFS, tmpFS, events, rIn, listResp, escapeVars,
                   failures>>

NextResolve == Resolve

SpecResolve == InitResolve /\ [][NextResolve]_vars

\* ---------------------------------------------------- escape on its own
\* A letter, a space, characters of EscapeChars, and a byte that is not
\* valid UTF-8.
EscapeAlphabet == {"a", " ", "\\", "-", InvalidByte}

InitEscape ==
    /\ InitPipeline
    /\ localFS = [l \in LocalPaths |-> Absent]
    /\ InitResolveIdle
    /\ eIn \in SeqsUpTo(EscapeAlphabet, MaxStrLen)
    /\ eOut = <<>>
    /\ epc = "call"

\* SendReport: escape(f), escape(e.Error()).
Escape ==
    /\ epc = "call"
    /\ eOut' = escape(eIn)
    /\ epc' = "returned"
    /\ UNCHANGED <<pc, lockOwner, defers, panicking, procVars, dlVars,
                   localFS, tmpFS, events, resolveVars, listResp, eIn,
                   failures>>

NextEscape == Escape

SpecEscape == InitEscape /\ [][NextEscape]_vars

\* ------------------------------------------------------------ ProcessLock
\* Mutant of LockHeld: the lock file is never looked at.
LockNeverHeld == FALSE

\* lockfile.TryLock refuses when the lock file names a process that is still
\* running; a file left by a process that has exited is taken over.
LockHeld == lockOwner # 0 /\ pc[lockOwner] # "exited"

\* return (panic = FALSE) or panic (TRUE) out of main: the deferred calls run.
Unwind(p, panic) ==
    /\ pc' = [pc EXCEPT ![p] = "defers"]
    /\ panicking' = [panicking EXCEPT ![p] = panic]

\* A call of the environment (the file system, the network, the bot) returns
\* an error, which no more than MaxFailures of them do in a behaviour; or it
\* works.
Fails == failures < MaxFailures /\ failures' = failures + 1
NoFailure == failures' = failures

AddError(p, e) == errors' = [errors EXCEPT ![p] = Append(@, e)]

\* Mutant of AddFile: the name is appended twice.
AddFileTwice(p, s) == downloaded' = [downloaded EXCEPT ![p] = @ \o <<s, s>>]

AddFile(p, s) == downloaded' = [downloaded EXCEPT ![p] = Append(@, s)]

\* Mutant of TryLock: the error of TryLock is logged and main goes on.
TryLockNoPanic(p) ==
    /\ pc[p] = "start"
    /\ \A q \in Procs : pc[q] \notin Terminal
    /\ \A q \in Procs : q < p => pc[q] # "start"
    /\ \/ /\ ~LockHeld
          /\ lockOwner' = p
          /\ events' = Log(p, "lock", <<>>)
       \/ UNCHANGED <<lockOwner, events>>
    /\ pc' = [pc EXCEPT ![p] = "config"]
    /\ defers' = [defers EXCEPT ![p] = Append(@, "unlock")]
    /\ NoFailure
    /\ UNCHANGED <<panicking, procVars, dlVars, localFS, tmpFS, resolveVars, escapeVars, listResp>>

\* main, lines 199-212: TryLock, panic when it fails, defer Unlock.  done and
\* crashed show a run at the instant its process ends; the first step of
\* another run is a later instant.  The invocations are numbered in the
\* order of their first step.
TryLock(p) ==
    /\ pc[p] = "start"
    /\ \A q \in Procs : pc[q] \notin Terminal
    /\ \A q \in Procs : q < p => pc[q] # "start"
    /\ \/ /\ ~LockHeld
          /\ lockOwner' = p
          /\ pc' = [pc EXCEPT ![p] = "config"]
          /\ defers' = [defers EXCEPT ![p] = Append(@, "unlock")]
          /\ events' = Log(p, "lock", <<>>)
          /\ UNCHANGED panicking
       \/ /\ pc' = [pc EXCEPT ![p] = "crashed"]
          /\ panicking' = [panicking EXCEPT ![p] = TRUE]
          /\ UNCHANGED <<lockOwner, defers, events>>
    /\ NoFailure
    /\ UNCHANGED <<procVars, dlVars, localFS, tmpFS, resolveVars, escapeVars, listResp>>

\* Mutant of GetConfig: the failure ends the process at once (os.Exit), and
\* no deferred call runs.
GetConfigExits(p) ==
    /\ pc[p] = "config"
    /\ \/ pc' = [pc EXCEPT ![p] = "newreport"] /\ NoFailure
       \/ pc' = [pc EXCEPT ![p] = "done"] /\ Fails
    /\ UNCHANGED <<lockOwner, defers, panicking, procVars, dlVars, localFS,
                   tmpFS, events, resolveVars, escapeVars, listResp>>

\* main, lines 214-218.
GetConfig(p) ==
    /\ pc[p] = "config"
    /\ \/ /\ pc' = [pc EXCEPT ![p] = "newreport"]
          /\ UNCHANGED panicking
          /\ NoFailure
       \/ Unwind(p, FALSE) /\ Fails
    /\ UNCHANGED <<lockOwner, defers, procVars, dlVars, localFS, tmpFS,
                   events, resolveVars, escapeVars, listResp>>

\* Mutant of NewReporter: SendReport is deferred below Unlock, and so runs
\* after it.
NewReporterSendsLast(p) ==
    /\ pc[p] = "newreport"
    /\ \/ /\ pc' = [pc EXCEPT ![p] = "listing"]
          /\ defers' = [defers EXCEPT ![p] = <<"send">> \o @]
          /\ UNCHANGED panicking
          /\ NoFailure
       \/ /\ Unwind(p, FALSE)
          /\ UNCHANGED defers
          /\ Fails
    /\ UNCHANGED <<lockOwner, procVars, dlVars, localFS, tmpFS, events,
                   resolveVars, escapeVars, listResp>>

\* main, lines 220-230: report.New, defer SendReport.
NewReporter(p) ==
    /\ pc[p] = "newreport"
    /\ \/ /\ pc' = [pc EXCEPT ![p] = "listing"]
          /\ defers' = [defers EXCEPT ![p] = Append(@, "send")]
          /\ UNCHANGED panicking
          /\ NoFailure
       \/ /\ Unwind(p, FALSE)
          /\ UNCHANGED defers
          /\ Fails
    /\ UNCHANGED <<lockOwner, procVars, dlVars, localFS, tmpFS, events,
                   resolveVars, escapeVars, listResp>>

\* getFiles, lines 77-85: the listing GET and what the remote answers.
ListRequest(p) ==
    /\ pc[p] = "listing"
    /\ \E r \in ListResponses :
          /\ listResp' = [listResp EXCEPT ![p] = r]
          /\ IF r.transport = "error" \/ r.body.kind = "unreadable"
             THEN Fails
             ELSE NoFailure
    /\ pc' = [pc EXCEPT ![p] = "listresp"]
    /\ UNCHANGED <<lockOwner, defers, panicking, procVars, dlVars, localFS,
                   tmpFS, events, resolveVars, escapeVars>>

\* Mutant of getFiles: the listing error is logged and not given to AddError.
getFilesDropsError(p) ==
    /\ pc[p] = "listresp"
    /\ listResp' = [listResp EXCEPT ![p] = NoListResp]
    /\ IF getFilesFails(listResp[p])
       THEN /\ events' = Log(p, "list", Err("list", <<>>).cause)
            /\ Unwind(p, FALSE)
            /\ UNCHANGED <<files, idx, errors>>
       ELSE /\ events' = Log(p, "list", <<>>)
            /\ files' = [files EXCEPT ![p] = Unmarshal(listResp[p].body).files]
            /\ idx' = [idx EXCEPT ![p] = 1]
            /\ pc' = [pc EXCEPT ![p] = "loop"]
            /\ UNCHANGED <<errors, panicking>>
    /\ NoFailure
    /\ UNCHANGED <<lockOwner, defers, downloaded, dlVars, localFS, tmpFS,
                   resolveVars, escapeVars>>

\* getFiles, lines 87-101, and main, lines 232-238.  The answer is a
\* transport error, a body that cannot be read, a body that is no JSON array,
\* or a listing; the status is not looked at.
getFiles(p) ==
    /\ pc[p] = "listresp"
    /\ listResp' = [listResp EXCEPT ![p] = NoListResp]
    /\ IF getFilesFails(listResp[p])
       THEN /\ events' = Log(p, "list", Err("list", <<>>).cause)
            /\ AddError(p, Err("list", <<>>))
            /\ Unwind(p, FALSE)
            /\ UNCHANGED <<files, idx>>
       ELSE /\ events' = Log(p, "list", <<>>)
            /\ files' = [files EXCEPT ![p] = Unmarshal(listResp[p].body).files]
            /\ idx' = [idx EXCEPT ![p] = 1]
            /\ pc' = [pc EXCEPT ![p] = "loop"]
            /\ UNCHANGED <<errors, panicking>>
    /\ NoFailure
    /\ UNCHANGED <<lockOwner, defers, downloaded, dlVars, localFS, tmpFS,
                   resolveVars, escapeVars>>

\* main, lines 240-247, and getFile, lines 177-187: the loop ends, or the
\* next file has no mapping, or downloadFile is called for it.
LoopStep(p) ==
    /\ pc[p] = "loop"
    /\ IF idx[p] > Len(files[p])
       THEN /\ Unwind(p, FALSE)
            /\ UNCHANGED <<procVars, dlVars, events>>
       ELSE LET f == files[p][idx[p]]
                localFile == findLocal(f, RootMapping)
            IN  /\ events' = Log(p, "getFile", f)
                /\ IF localFile = <<>>
                   THEN /\ AddError(p, Err("map", f))
                        /\ idx' = [idx EXCEPT ![p] = @ + 1]
                        /\ UNCHANGED <<pc, panicking, files, downloaded,
                                       dlVars>>
                   ELSE /\ local' = [local EXCEPT ![p] = localFile]
                        /\ preLocal' =
                              [preLocal EXCEPT ![p] = localFS[localFile]]
                        /\ pc' = [pc EXCEPT ![p] = "create"]
                        /\ UNCHANGED <<panicking, procVars, tmp, outOpen,
                                       resp, dlErr, rmErr>>
    /\ NoFailure
    /\ UNCHANGED <<lockOwner, defers, localFS, tmpFS, resolveVars, escapeVars, listResp>>

\* getFile has returned: the variables of downloadFile are gone.
FrameGone(p) ==
    /\ local' = [local EXCEPT ![p] = <<>>]
    /\ tmp' = [tmp EXCEPT ![p] = 0]
    /\ outOpen' = [outOpen EXCEPT ![p] = FALSE]
    /\ resp' = [resp EXCEPT ![p] = NoResp]
    /\ dlErr' = [dlErr EXCEPT ![p] = NoErr]
    /\ rmErr' = [rmErr EXCEPT ![p] = FALSE]
    /\ preLocal' = [preLocal EXCEPT ![p] = Absent]

\* Mutant of FileFailed: break where the code has continue.
FileFailedBreaks(p, e) ==
    /\ AddError(p, e)
    /\ idx' = [idx EXCEPT ![p] = Len(files[p]) + 1]
    /\ pc' = [pc EXCEPT ![p] = "loop"]
    /\ FrameGone(p)
    /\ UNCHANGED <<files, downloaded, panicking>>

\* getFile returns err to the loop: r.AddError(err); continue.
FileFailed(p, e) ==
    /\ AddError(p, e)
    /\ idx' = [idx EXCEPT ![p] = @ + 1]
    /\ pc' = [pc EXCEPT ![p] = "loop"]
    /\ FrameGone(p)
    /\ UNCHANGED <<files, downloaded, panicking>>

\* downloadFile, lines 125-140: MkdirAll, randomString, os.Create.  Each can
\* fail, and then nothing was created; os.Create truncates.
CreateTemp(p) ==
    /\ pc[p] = "create"
    /\ \/ /\ FileFailed(p, Err("download", files[p][idx[p]]))
          /\ UNCHANGED <<tmpFS, events>>
          /\ Fails
       \/ \E postfix \in Postfixes :
            /\ tmp' = [tmp EXCEPT ![p] = postfix]
            /\ tmpFS' = [tmpFS EXCEPT ![<<local[p], postfix>>] = FileOf(<<>>)]
            /\ outOpen' = [outOpen EXCEPT ![p] = TRUE]
            /\ events' = Log(p, "create", files[p][idx[p]])
            /\ pc' = [pc EXCEPT ![p] = "get"]
            /\ NoFailure
            /\ UNCHANGED <<panicking, procVars, local, resp, dlErr, rmErr,
                           preLocal>>
    /\ UNCHANGED <<lockOwner, defers, localFS, resolveVars, escapeVars, listResp>>

\* downloadFile returns err with the cleanup still to run.
DownloadFails(p) ==
    /\ dlErr' = [dlErr EXCEPT ![p] = Err("download", files[p][idx[p]])]
    /\ pc' = [pc EXCEPT ![p] = "cleanup"]
    /\ Fails

\* downloadFile, lines 154-158: the GET of the file.
Get(p) ==
    /\ pc[p] = "get"
    /\ events' = Log(p, "get", files[p][idx[p]])
    /\ \/ /\ DownloadFails(p)
          /\ UNCHANGED resp
       \/ \E status \in Statuses :
            /\ resp' = [resp EXCEPT ![p] =
                          [status |-> status,
                           body |-> ResponseBody(files[p][idx[p]], status)]]
            /\ pc' = [pc EXCEPT ![p] = "copy"]
            /\ UNCHANGED dlErr
            /\ NoFailure
    /\ UNCHANGED <<lockOwner, defers, panicking, procVars, local, tmp, outOpen,
                   rmErr, preLocal, localFS, tmpFS, resolveVars, escapeVars, listResp>>

TmpName(p) == <<local[p], tmp[p]>>

\* Mutant of CopyChunk: the body is streamed into local itself.
CopyChunkDirect(p) ==
    /\ pc[p] = "copy"
    /\ Len(tmpFS[TmpName(p)].data) < Len(resp[p].body)
    /\ \/ /\ tmpFS' = [tmpFS EXCEPT ![TmpName(p)] =
                FileOf(Append(@.data, resp[p].body[Len(@.data) + 1]))]
          /\ localFS' = [localFS EXCEPT ![local[p]] =
                FileOf(Append(tmpFS[TmpName(p)].data,
                              resp[p].body[Len(tmpFS[TmpName(p)].data) + 1]))]
          /\ UNCHANGED <<pc, dlErr>>
          /\ NoFailure
       \/ /\ DownloadFails(p)
          /\ UNCHANGED <<tmpFS, localFS>>
    /\ UNCHANGED <<lockOwner, defers, panicking, procVars, local, tmp, outOpen,
                   resp, rmErr, preLocal, events, resolveVars, escapeVars, listResp>>

\* downloadFile, lines 160-163: io.Copy moves the next chunk of the body into
\* output, or fails (the body ends early, the write fails).
CopyChunk(p) ==
    /\ pc[p] = "copy"
    /\ Len(tmpFS[TmpName(p)].data) < Len(resp[p].body)
    /\ \/ /\ tmpFS' = [tmpFS EXCEPT ![TmpName(p)] =
                FileOf(Append(@.data, resp[p].body[Len(@.data) + 1]))]
          /\ UNCHANGED <<pc, dlErr>>
          /\ NoFailure
       \/ /\ DownloadFails(p)
          /\ UNCHANGED tmpFS
    /\ UNCHANGED <<lockOwner, defers, panicking, procVars, local, tmp, outOpen,
                   resp, rmErr, preLocal, localFS, events, resolveVars, escapeVars, listResp>>

\* downloadFile, lines 160-167: io.Copy has reached the end of the body;
\* output.Close.
Close(p) ==
    /\ pc[p] = "copy"
    /\ Len(tmpFS[TmpName(p)].data) = Len(resp[p].body)
    /\ outOpen' = [outOpen EXCEPT ![p] = FALSE]
    /\ \/ /\ pc' = [pc EXCEPT ![p] = "rename"]
          /\ UNCHANGED dlErr
          /\ NoFailure
       \/ DownloadFails(p)
    /\ UNCHANGED <<lockOwner, defers, panicking, procVars, local, tmp, resp,
                   rmErr, preLocal, localFS, tmpFS, events, resolveVars, escapeVars, listResp>>

\* downloadFile, lines 168-173: os.Rename(tmpFile, local).
Rename(p) ==
    /\ pc[p] = "rename"
    /\ \/ /\ localFS' = [localFS EXCEPT ![local[p]] = tmpFS[TmpName(p)]]
          /\ tmpFS' = [tmpFS EXCEPT ![TmpName(p)] = Absent]
          /\ events' = Log(p, "commit", files[p][idx[p]])
          /\ pc' = [pc EXCEPT ![p] = "cleanup"]
          /\ UNCHANGED dlErr
          /\ NoFailure
       \/ /\ DownloadFails(p)
          /\ UNCHANGED <<localFS, tmpFS, events>>
    /\ UNCHANGED <<lockOwner, defers, panicking, procVars, local, tmp, outOpen,
                   resp, rmErr, preLocal, resolveVars, escapeVars, listResp>>

\* Mutant of Cleanup: the temporary file is never removed.
CleanupNoRemove(p) ==
    /\ pc[p] = "cleanup"
    /\ outOpen' = [outOpen EXCEPT ![p] = FALSE]
    /\ \/ /\ Unwind(p, TRUE)
          /\ events' = Log(p, "fault", files[p][idx[p]])
          /\ Fails
       \/ /\ pc' = [pc EXCEPT ![p] = "returned"]
          /\ UNCHANGED <<panicking, events>>
          /\ NoFailure
    /\ UNCHANGED <<lockOwner, defers, procVars, local, tmp, resp, dlErr, rmErr,
                   preLocal, localFS, tmpFS, resolveVars, escapeVars, listResp>>

\* Mutant of Cleanup: a failing Stat is returned as the error of downloadFile.
CleanupReturnsFault(p) ==
    /\ pc[p] = "cleanup"
    /\ outOpen' = [outOpen EXCEPT ![p] = FALSE]
    /\ \/ /\ dlErr' = [dlErr EXCEPT ![p] = Err("download", files[p][idx[p]])]
          /\ pc' = [pc EXCEPT ![p] = "returned"]
          /\ events' = Log(p, "fault", files[p][idx[p]])
          /\ UNCHANGED <<tmpFS, rmErr, panicking>>
          /\ Fails
       \/ /\ ~tmpFS[TmpName(p)].exists
          /\ pc' = [pc EXCEPT ![p] = "returned"]
          /\ UNCHANGED <<tmpFS, rmErr, panicking, events, dlErr>>
          /\ NoFailure
       \/ /\ tmpFS[TmpName(p)].exists
          /\ \/ /\ tmpFS' = [tmpFS EXCEPT ![TmpName(p)] = Absent]
                /\ UNCHANGED rmErr
                /\ NoFailure
             \/ /\ rmErr' = [rmErr EXCEPT ![p] = TRUE]
                /\ UNCHANGED tmpFS
                /\ Fails
          /\ pc' = [pc EXCEPT ![p] = "returned"]
          /\ UNCHANGED <<panicking, events, dlErr>>
    /\ UNCHANGED <<lockOwner, defers, procVars, local, tmp, resp,
                   preLocal, localFS, resolveVars, escapeVars, listResp>>

\* downloadFile's deferred function, lines 142-152: Close, Stat; panic on a
\* Stat error other than not-exist; Remove, its error dropped.
Cleanup(p) ==
    /\ pc[p] = "cleanup"
    /\ outOpen' = [outOpen EXCEPT ![p] = FALSE]
    /\ \/ /\ Unwind(p, TRUE)
          /\ events' = Log(p, "fault", files[p][idx[p]])
          /\ UNCHANGED <<tmpFS, rmErr>>
          /\ Fails
       \/ /\ ~tmpFS[TmpName(p)].exists
          /\ pc' = [pc EXCEPT ![p] = "returned"]
          /\ UNCHANGED <<tmpFS, rmErr, panicking, events>>
          /\ NoFailure
       \/ /\ tmpFS[TmpName(p)].exists
          /\ \/ /\ tmpFS' = [tmpFS EXCEPT ![TmpName(p)] = Absent]
                /\ UNCHANGED rmErr
                /\ NoFailure
             \/ /\ rmErr' = [rmErr EXCEPT ![p] = TRUE]
                /\ UNCHANGED tmpFS
                /\ Fails
          /\ pc' = [pc EXCEPT ![p] = "returned"]
          /\ UNCHANGED <<panicking, events>>
    /\ UNCHANGED <<lockOwner, defers, procVars, local, tmp, resp, dlErr,
                   preLocal, localFS, resolveVars, escapeVars, listResp>>

\* Mutant of DownloadReturned: the error of downloadFile is recorded and
\* delFile is called all the same.
DownloadReturnedDeletesAnyway(p) ==
    /\ pc[p] = "returned"
    /\ pc' = [pc EXCEPT ![p] = "delete"]
    /\ FrameGone(p)
    /\ IF dlErr[p] = NoErr
       THEN UNCHANGED <<panicking, procVars>>
       ELSE /\ AddError(p, dlErr[p])
            /\ UNCHANGED <<panicking, files, idx, downloaded>>
    /\ NoFailure
    /\ UNCHANGED <<lockOwner, defers, localFS, tmpFS, events, resolveVars, escapeVars, listResp>>

\* getFile, lines 187-190, and main, lines 241-245: downloadFile has
\* returned; its error goes to the aggregator, success goes on to delFile.
DownloadReturned(p) ==
    /\ pc[p] = "returned"
    /\ IF dlErr[p] = NoErr
       THEN /\ pc' = [pc EXCEPT ![p] = "delete"]
            /\ FrameGone(p)
            /\ UNCHANGED <<panicking, procVars>>
       ELSE FileFailed(p, dlErr[p])
    /\ NoFailure
    /\ UNCHANGED <<lockOwner, defers, localFS, tmpFS, events, resolveVars, escapeVars, listResp>>

\* The DELETE was sent and an answer came back: delFile returns nil.
Answered(p, f) ==
    [events EXCEPT ![p] = @ \o <<Event("delete", f), Event("deleted", f)>>]

\* Mutant of delFile: a failed DELETE takes the committed file away again.
delFileRollsBack(p) ==
    /\ pc[p] = "delete"
    /\ \/ /\ events' = Log(p, "delete", files[p][idx[p]])
          /\ FileFailed(p, Err("delete", files[p][idx[p]]))
          /\ Fails
          /\ localFS' = [localFS EXCEPT
                            ![findLocal(files[p][idx[p]], RootMapping)] = Absent]
       \/ \E status \in Statuses :
            /\ events' = Answered(p, files[p][idx[p]])
            /\ AddFile(p, Base(files[p][idx[p]]))
            /\ idx' = [idx EXCEPT ![p] = @ + 1]
            /\ pc' = [pc EXCEPT ![p] = "loop"]
            /\ NoFailure
            /\ UNCHANGED <<files, errors, panicking, dlVars, localFS>>
    /\ UNCHANGED <<lockOwner, defers, tmpFS, resolveVars, escapeVars, listResp>>

\* delFile and getFile, lines 192-193, and main, lines 242-246: only a
\* transport error is an error; the status is not looked at.
delFile(p) ==
    /\ pc[p] = "delete"
    /\ \/ /\ events' = Log(p, "delete", files[p][idx[p]])
          /\ FileFailed(p, Err("delete", files[p][idx[p]]))
          /\ Fails
       \/ \E status \in Statuses :
            /\ events' = Answered(p, files[p][idx[p]])
            /\ AddFile(p, Base(files[p][idx[p]]))
            /\ idx' = [idx EXCEPT ![p] = @ + 1]
            /\ pc' = [pc EXCEPT ![p] = "loop"]
            /\ NoFailure
            /\ UNCHANGED <<files, errors, panicking, dlVars>>
    /\ UNCHANGED <<lockOwner, defers, localFS, tmpFS, resolveVars, escapeVars, listResp>>

\* The deferred calls run last registered first; after the last one main is
\* over: it has returned, or the panic ends the process.
Popped(p) ==
    /\ defers' = [defers EXCEPT ![p] = SubSeq(@, 1, Len(@) - 1)]
    /\ pc' = [pc EXCEPT ![p] =
                IF Len(defers[p]) > 1 THEN "defers"
                ELSE IF panicking'[p] THEN "crashed" ELSE "done"]

NextDeferred(p) == defers[p][Len(defers[p])]

\* Mutant of SendReport: no early return when there is nothing to report.
SendReportAlways(p) ==
    /\ pc[p] = "defers"
    /\ NextDeferred(p) = "send"
    /\ events' = Log(p, "send", ReportMessage(downloaded[p], errors[p]))
    /\ \/ UNCHANGED panicking /\ NoFailure
       \/ panicking' = [panicking EXCEPT ![p] = TRUE] /\ Fails
    /\ Popped(p)
    /\ UNCHANGED <<lockOwner, procVars, dlVars, localFS, tmpFS, resolveVars, escapeVars, listResp>>

\* main, lines 225-230, and Reporter.SendReport.
SendReport(p) ==
    /\ pc[p] = "defers"
    /\ NextDeferred(p) = "send"
    /\ IF Len(downloaded[p]) = 0 /\ Len(errors[p]) = 0
       THEN UNCHANGED <<events, panicking>> /\ NoFailure
       ELSE /\ events' = Log(p, "send", ReportMessage(downloaded[p], errors[p]))
            /\ \/ UNCHANGED panicking /\ NoFailure
               \/ panicking' = [panicking EXCEPT ![p] = TRUE] /\ Fails
    /\ Popped(p)
    /\ UNCHANGED <<lockOwner, procVars, dlVars, localFS, tmpFS, resolveVars, escapeVars, listResp>>

\* main, lines 208-212: lock.Unlock removes the lock file of this process; an
\* error is logged.
Unlock(p) ==
    /\ pc[p] = "defers"
    /\ NextDeferred(p) = "unlock"
    /\ events' = Log(p, "unlock", <<>>)
    /\ \/ /\ lockOwner = p
          /\ lockOwner' = 0
          /\ NoFailure
       \/ /\ UNCHANGED lockOwner
          /\ IF lockOwner = p THEN Fails ELSE NoFailure
    /\ UNCHANGED panicking
    /\ Popped(p)
    /\ UNCHANGED <<procVars, dlVars, localFS, tmpFS, resolveVars, escapeVars, listResp>>

\* The process is gone, and its memory with it.
Exit(p) ==
    /\ pc[p] \in Terminal
    /\ pc' = [pc EXCEPT ![p] = "exited"]
    /\ panicking' = [panicking EXCEPT ![p] = FALSE]
    /\ files' = [files EXCEPT ![p] = <<>>]
    /\ idx' = [idx EXCEPT ![p] = 0]
    /\ downloaded' = [downloaded EXCEPT ![p] = <<>>]
    /\ errors' = [errors EXCEPT ![p] = <<>>]
    /\ local' = [local EXCEPT ![p] = <<>>]
    /\ tmp' = [tmp EXCEPT ![p] = 0]
    /\ outOpen' = [outOpen EXCEPT ![p] = FALSE]
    /\ resp' = [resp EXCEPT ![p] = NoResp]
    /\ dlErr' = [dlErr EXCEPT ![p] = NoErr]
    /\ rmErr' = [rmErr EXCEPT ![p] = FALSE]
    /\ preLocal' = [preLocal EXCEPT ![p] = Absent]
    /\ events' = [events EXCEPT ![p] = <<>>]
    /\ NoFailure
    /\ UNCHANGED <<lockOwner, defers, localFS, tmpFS, resolveVars, escapeVars, listResp>>

Next ==
    \/ \E p \in Procs : TryLock(p)
    \/ \E p \in Procs : GetConfig(p)
    \/ \E p \in Procs : NewReporter(p)
    \/ \E p \in Procs : ListRequest(p)
    \/ \E p \in Procs : getFiles(p)
    \/ \E p \in Procs : LoopStep(p)
    \/ \E p \in Procs : CreateTemp(p)
    \/ \E p \in Procs : Get(p)
    \/ \E p \in Procs : CopyChunk(p)
    \/ \E p \in Procs : Close(p)
    \/ \E p \in Procs : Rename(p)
    \/ \E p \in Procs : Cleanup(p)
    \/ \E p \in Procs : DownloadReturned(p)
    \/ \E p \in Procs : delFile(p)
    \/ \E p \in Procs : SendReport(p)
    \/ \E p \in Procs : Unlock(p)
    \/ \E p \in Procs : Exit(p)

Spec == Init /\ [][Next]_vars

\* ------------------------------------------------------------------ claims
Acquired(p) == CountKind(events[p], "lock") = 1

\* Between a successful TryLock and the call of Unlock.
InRun(p) ==
    /\ Acquired(p)
    /\ CountKind(events[p], "unlock") = 0
    /\ pc[p] \notin Terminal \cup {"start", "exited"}

\* C1: no two invocations are at the same time between a successful lock
\* acquisition and their lock release.
C1_MutualExclusion ==
    \A p, q \in Procs : p # q => ~(InRun(p) /\ InRun(q))

\* One run is streaming a body while another has been refused the lock.
C1_Witness ==
    \E p, q \in Procs :
        /\ InRun(p) /\ pc[p] = "copy" /\ lockOwner = p
        /\ pc[q] = "crashed" /\ ~Acquired(q)

\* C2: a DELETE for a file is issued only when the file's resolved local path
\* holds the file's full content.
C2_DeleteOnlyAfterFullCopy ==
    \A p \in Procs :
        pc[p] = "delete" =>
            LET f == files[p][idx[p]]
            IN  localFS[findLocal(f, RootMapping)] = FileOf(Content(f))

InDownload(p) == pc[p] \in {"get", "copy", "rename", "cleanup", "returned"}

\* C3: during downloadFile the only step that changes what a destination path
\* holds is the rename of the closed temporary file holding the whole body
\* streamed; the destination holds what it held before the call or that body.
C3_Step ==
    /\ \A l \in LocalPaths :
        localFS'[l] # localFS[l] =>
            \E p \in Procs :
                /\ pc[p] = "rename" /\ local[p] = l
                /\ ~outOpen[p]
                /\ tmpFS[TmpName(p)] = FileOf(resp[p].body)
                /\ localFS'[l] = FileOf(resp[p].body)
    /\ \A p \in Procs :
        InDownload(p)' =>
            localFS'[local'[p]] \in {preLocal'[p], FileOf(resp'[p].body)}

C3_RenameIsTheOnlyWrite == [][C3_Step]_vars

\* The rename has put the whole body where older content was.
C3_Witness ==
    \E p \in Procs :
        /\ pc[p] = "cleanup" /\ dlErr[p] = NoErr
        /\ preLocal[p] = FileOf(OldData)
        /\ Len(resp[p].body) = BodyLen
        /\ localFS[local[p]] = FileOf(resp[p].body)

\* C4 as claimed: when downloadFile returns an error after it created the
\* temporary file, that file is gone and local holds what it held before.
C4_NoTempLeftBehind ==
    \A p \in Procs :
        pc[p] = "returned" /\ dlErr[p] # NoErr =>
            /\ ~tmpFS[TmpName(p)].exists
            /\ localFS[local[p]] = preLocal[p]

\* C4 as amended: local holds what it held before, and the temporary file is
\* gone unless os.Remove failed, whose error the cleanup drops.
C4_TempLeftOnlyWhenRemoveFails ==
    \A p \in Procs :
        pc[p] = "returned" /\ dlErr[p] # NoErr =>
            /\ tmpFS[TmpName(p)].exists <=> rmErr[p]
            /\ localFS[local[p]] = preLocal[p]

\* A copy that failed half way has returned, the temporary file removed, over
\* a destination that held older content.
C4_Witness ==
    \E p \in Procs :
        /\ pc[p] = "returned" /\ dlErr[p] # NoErr
        /\ resp[p].status = StatusOK
        /\ ~rmErr[p] /\ ~tmpFS[TmpName(p)].exists
        /\ localFS[local[p]] = FileOf(OldData)

\* C5: a run that acquired the lock has called Unlock exactly once when it
\* is over, however it ended, and never calls it twice.
C5_UnlockOnEveryExit ==
    \A p \in Procs :
        /\ CountKind(events[p], "unlock") <= 1
        /\ pc[p] \in Terminal /\ Acquired(p) =>
               CountKind(events[p], "unlock") = 1

\* A run ended by a cleanup fault inside downloadFile has called Unlock.
C5_Witness ==
    \E p \in Procs :
        /\ pc[p] = "crashed" /\ Acquired(p)
        /\ CountKind(events[p], "fault") = 1
        /\ CountKind(events[p], "unlock") = 1

\* C6: an invocation that finds the lock held leaves TryLock by the panic,
\* and from there only ends: it has made no remote call, written nothing
\* and sent nothing, and the lock and the filesystem are as they were.
C6_Step ==
    \A p \in Procs :
        /\ pc[p] = "start" /\ LockHeld /\ pc'[p] # "start" =>
              /\ pc'[p] = "crashed"
              /\ events'[p] = <<>> /\ defers'[p] = <<>>
              /\ UNCHANGED <<lockOwner, localFS, tmpFS>>
        /\ pc[p] = "crashed" /\ ~Acquired(p) =>
              /\ events[p] = <<>> /\ defers[p] = <<>>
              /\ pc'[p] \in {"crashed", "exited"}
              /\ events'[p] = <<>>

C6_HeldLockStopsTheRun == [][C6_Step]_vars

\* An invocation has been refused while the holder is about to delete.
C6_Witness ==
    \E p, q \in Procs :
        /\ lockOwner = p /\ pc[p] = "delete"
        /\ pc[q] = "crashed" /\ events[q] = <<>>

\* The mappings of a list whose RemotePath is a prefix of f.
Matching(f, mapping) ==
    {i \in 1..Len(mapping) : HasPrefix(f, mapping[i].RemotePath)}

Last(S) == CHOOSE i \in S : \A j \in S : j <= i

\* C7: findLocal gives the path computed from the last mapping whose
\* RemotePath is a prefix of the remote path, and the not-found value (the
\* empty string getFile tests for) exactly when no mapping matches.
C7_LastMatchOrNotFound ==
    rpc = "returned" =>
        LET m == Matching(rIn.f, rIn.mapping)
        IN  IF m = {}
            THEN rOut = <<>>
            ELSE /\ rOut # <<>>
                 /\ rOut = ReplaceAll(rIn.f, rIn.mapping[Last(m)].RemotePath,
                                      rIn.mapping[Last(m)].LocalPath)

\* C8: a run sends the notification at most once, and when it is over it has
\* sent none exactly when downloaded and errors are both empty.
C8_ReportAtMostOnce ==
    \A p \in Procs :
        /\ CountKind(events[p], "send") <= 1
        /\ pc[p] \in Terminal =>
              (CountKind(events[p], "send") = 0
                  <=> (Len(downloaded[p]) = 0 /\ Len(errors[p]) = 0))

\* A run is over that sent one message for a download and an error.
C8_Witness ==
    \E p \in Procs :
        /\ pc[p] = "done"
        /\ Len(downloaded[p]) = 1 /\ Len(errors[p]) = 1
        /\ CountKind(events[p], "send") = 1

\* getFiles returned a listing; getFiles returned an error.
Listed(p) ==
    \E i \in 1..Len(events[p]) : events[p][i] = Event("list", <<>>)
ListFailed(p) ==
    \E i \in 1..Len(events[p]) :
        events[p][i].kind = "list" /\ events[p][i].arg # <<>>

ArgsOf(log, kind) ==
    LET of == SelectSeq(log, LAMBDA e : e.kind = kind)
    IN  [i \in 1..Len(of) |-> of[i].arg]

\* The files getFile was called for, in order.
Attempted(p) == ArgsOf(events[p], "getFile")

\* C9 as claimed: after a listing of N files every one of them is attempted,
\* in listing order, whichever of them failed.
C9_EveryFileAttempted ==
    \A p \in Procs :
        pc[p] \in Terminal /\ Listed(p) => Attempted(p) = files[p]

\* C9 as amended: every listed file is attempted in order and each file adds
\* one entry to the aggregator, unless the cleanup inside downloadFile panics:
\* then that file is the last one attempted and adds nothing.
C9_EveryFileAttemptedUnlessFault ==
    \A p \in Procs :
        pc[p] \in Terminal /\ Listed(p) =>
            LET n == Len(Attempted(p))
            IN  IF CountKind(events[p], "fault") = 0
                THEN /\ Attempted(p) = files[p]
                     /\ Len(errors[p]) + Len(downloaded[p]) = n
                ELSE /\ n >= 1
                     /\ Attempted(p) = SubSeq(files[p], 1, n)
                     /\ ArgsOf(events[p], "fault") = <<files[p][n]>>
                     /\ Len(errors[p]) + Len(downloaded[p]) = n - 1

\* A run is over in which the first of two files failed to download and the
\* second was downloaded and deleted.
C9_Witness ==
    \E p \in Procs :
        /\ pc[p] = "done" /\ Listed(p)
        /\ Len(files[p]) = MaxFiles
        /\ Len(errors[p]) >= 1 /\ errors[p][1].stage = "download"
        /\ errors[p][1].file = files[p][1]
        /\ Len(downloaded[p]) >= 1
        /\ Attempted(p) = files[p]

\* C10: after a failed listing the run calls getFile for nothing, creates,
\* fetches, commits and deletes nothing, and goes to its deferred calls; when
\* it is over the aggregator holds that one error and no file, and the run
\* did four things: lock, list, send a message with that error alone, unlock.
C10_ListingFailure ==
    \A p \in Procs :
        ListFailed(p) =>
            /\ pc[p] \in Terminal \cup {"defers"}
            /\ \A k \in {"getFile", "create", "get", "commit", "delete"} :
                   CountKind(events[p], k) = 0
            /\ errors[p] = <<Err("list", <<>>)>>
            /\ downloaded[p] = <<>>
            /\ pc[p] \in Terminal =>
                   events[p] =
                     << Event("lock", <<>>),
                        Event("list", Err("list", <<>>).cause),
                        Event("send", TitleText \o ErrorsHeaderText
                                \o BulletText
                                \o escape(ErrorText(Err("list", <<>>)))
                                \o NewLine),
                        Event("unlock", <<>>) >>

\* A run whose listing failed is over, its message sent and delivered.
C10_Witness ==
    \E p \in Procs :
        /\ pc[p] = "done" /\ ListFailed(p)
        /\ CountKind(events[p], "send") = 1
        /\ lockOwner = 0

\* What C11 counts as a listing that must fail.
BadListing(r) ==
    \/ r.transport = "error"
    \/ r.status # StatusOK
    \/ r.body.kind # "array"
    \/ \E i \in 1..Len(r.body.items) : ~r.body.items[i].field

\* C11: getFiles returns an error, and the run is aborted, exactly when the
\* listing request fails in transport, the status is not a success, or the
\* body is no JSON array of objects with a web_path string.
C11_Step ==
    \A p \in Procs :
        pc[p] = "listresp" /\ pc'[p] # "listresp" =>
            IF BadListing(listResp[p])
            THEN pc'[p] = "defers" /\ errors'[p] = <<Err("list", <<>>)>>
            ELSE pc'[p] = "loop" /\ errors'[p] = <<>>

C11_ListFailsOnEveryBadAnswer == [][C11_Step]_vars

\* The number of the file the i-th event of a run belongs to: the getFile
\* calls up to it.
FileNoAt(log, i) == Cardinality({j \in 1..i : log[j].kind = "getFile"})

\* A step of run p that writes an event of this kind.
Logged(p, kind) ==
    /\ Len(events'[p]) > Len(events[p])
    /\ events'[p][Len(events[p]) + 1].kind = kind

\* The last event of run p is of one of these kinds.
LastLogged(p, kinds) ==
    events[p] # <<>> /\ events[p][Len(events[p])].kind \in kinds

\* C12: the DELETE of a file is sent when downloadFile has returned nil for
\* it, directly after the commit of that same file, with nothing of another
\* file in between; a commit is followed by the DELETE of its file or by the
\* cleanup's panic, and a DELETE by the next getFile or the end of the loop.
C12_Step ==
    \A p \in Procs :
        LET f == files[p][idx[p]]
            n == Len(events[p])
        IN  /\ Logged(p, "delete") =>
                  /\ pc[p] = "delete" /\ dlErr[p] = NoErr
                  /\ events'[p][n + 1].arg = f
                  /\ events[p][n] = Event("commit", f)
                  /\ FileNoAt(events[p], n) = idx[p]
            /\ Logged(p, "commit") =>
                  /\ events'[p][n + 1].arg = f
                  /\ FileNoAt(events[p], n) = idx[p]
            /\ LastLogged(p, {"commit"}) /\ Len(events'[p]) > n =>
                  /\ Logged(p, "delete") \/ Logged(p, "fault")
                  /\ events'[p][n + 1].arg = events[p][n].arg
            /\ LastLogged(p, {"delete", "deleted"}) /\ Len(events'[p]) > n =>
                  Logged(p, "getFile") \/ Logged(p, "send")
                      \/ Logged(p, "unlock")

C12_DeletePairedWithCommit == [][C12_Step]_vars

\* A run is over in which two files were each committed and then deleted.
C12_Witness ==
    \E p \in Procs :
        /\ pc[p] = "done"
        /\ Len(files[p]) = MaxFiles
        /\ ArgsOf(events[p], "commit") = files[p]
        /\ ArgsOf(events[p], "delete") = files[p]

\* C13 as claimed: the lock is released before the report is sent: every
\* send event of a run has the run's unlock event before it.
C13_ReleaseBeforeSend ==
    \A p \in Procs :
        \A j \in 1..Len(events[p]) :
            events[p][j].kind = "send" =>
                \E i \in 1..(j - 1) : events[p][i].kind = "unlock"

\* C13 as amended: the report is sent first and the lock released after it.
\* When SendReport sends, Unlock has not run and the lock file is this
\* run's; when Unlock runs in a run that got an answer from getFiles and has
\* something to report, the send is the event before it, and the run is over
\* with it; nothing is sent after Unlock.
C13_Step ==
    \A p \in Procs :
        /\ Logged(p, "send") =>
              /\ CountKind(events[p], "unlock") = 0
              /\ lockOwner = p /\ lockOwner' = p
        /\ Logged(p, "unlock") =>
              /\ pc'[p] \in Terminal
              /\ CountKind(events[p], "list") = 1
                    /\ Len(downloaded[p]) + Len(errors[p]) > 0 =>
                        events[p][Len(events[p])].kind = "send"
        /\ CountKind(events[p], "unlock") > 0 => ~Logged(p, "send")

C13_SendBeforeRelease == [][C13_Step]_vars

\* A run is over that sent its report and then released the lock.
C13_Witness ==
    \E p \in Procs :
        /\ pc[p] = "done"
        /\ Len(downloaded[p]) >= 1
        /\ CountKind(events[p], "send") = 1
        /\ events[p][Len(events[p])].kind = "unlock"
        /\ lockOwner = 0

\* C14: when delFile fails for a file that downloadFile has committed, the
\* step appends one error for that file, leaves the local file system as it
\* is, the committed body whole at the local path, and moves the loop on to
\* the next file.
C14_Step ==
    \A p \in Procs :
        pc[p] = "delete" /\ pc'[p] # "delete"
            /\ downloaded'[p] = downloaded[p] =>
                LET f == files[p][idx[p]]
                    l == findLocal(f, RootMapping)
                IN  /\ errors'[p] = Append(errors[p], Err("delete", f))
                    /\ localFS' = localFS
                    /\ localFS'[l] \in
                          {FileOf(ResponseBody(f, st)) : st \in Statuses}
                    /\ files'[p] = files[p]
                    /\ idx'[p] = idx[p] + 1
                    /\ pc'[p] = "loop"

C14_FailedDeleteKeepsTheFile == [][C14_Step]_vars

\* The DELETE of the first of two files has just failed: its error is the
\* only entry, its content is at the local path, the second file is next.
C14_Witness ==
    \E p \in Procs :
        /\ pc[p] = "loop"
        /\ Len(files[p]) = MaxFiles /\ idx[p] = 2
        /\ errors[p] = <<Err("delete", files[p][1])>>
        /\ downloaded[p] = <<>>
        /\ localFS[findLocal(files[p][1], RootMapping)]
              = FileOf(Content(files[p][1]))

\* What C15 says a matching mapping makes of f: LocalPath, then what is left
\* of f after the leading RemotePath.
PrefixSwapped(f, m) ==
    m.LocalPath \o SubSeq(f, Len(m.RemotePath) + 1, Len(f))

\* C15: when a mapping matches, findLocal gives the LocalPath of the last
\* matching mapping followed by the rest of the remote path after the leading
\* RemotePath; later occurrences of RemotePath are left as they are.
C15_OnlyThePrefixIsReplaced ==
    rpc = "returned" =>
        LET m == Matching(rIn.f, rIn.mapping)
        IN  m # {} => rOut = PrefixSwapped(rIn.f, rIn.mapping[Last(m)])

\* getFile is running for a listed file.
InGetFile(p) == InDownload(p) \/ pc[p] \in {"create", "delete"}

\* C16: the panic of downloadFile's cleanup adds nothing to the aggregator
\* and takes the run straight to main's deferred calls; after it the run
\* makes no call for any listed file, only sends the report and unlocks, and
\* ends by the panic.  Any other error of a file is appended and the loop
\* goes on to the next file: the loop is left for the deferred calls only by
\* the panic or at the end of the listing.
C16_Step ==
    \A p \in Procs :
        /\ Logged(p, "fault") =>
              /\ errors'[p] = errors[p] /\ downloaded'[p] = downloaded[p]
              /\ pc'[p] = "defers" /\ panicking'[p]
        /\ CountKind(events[p], "fault") > 0 /\ pc'[p] # "exited" =>
              /\ events'[p] = events[p]
                    \/ Logged(p, "send") \/ Logged(p, "unlock")
              /\ errors'[p] = errors[p] /\ downloaded'[p] = downloaded[p]
              /\ idx'[p] = idx[p]
              /\ pc'[p] \in {"defers", "crashed"}
        /\ Listed(p) /\ Len(errors'[p]) > Len(errors[p]) =>
              /\ pc'[p] = "loop"
              /\ idx'[p] = idx[p] + 1
        /\ (pc[p] = "loop" \/ InGetFile(p)) /\ pc'[p] = "defers" =>
              \/ Logged(p, "fault")
              \/ pc[p] = "loop" /\ idx[p] = Len(files[p]) + 1

C16_CleanupFaultStopsTheRun == [][C16_Step]_vars

\* A run is over by the cleanup's panic on the first of two files: nothing
\* was recorded and the second file was never tried.
C16_Witness ==
    \E p \in Procs :
        /\ pc[p] = "crashed"
        /\ Len(files[p]) = MaxFiles
        /\ ArgsOf(events[p], "fault") = <<files[p][1]>>
        /\ Attempted(p) = <<files[p][1]>>
        /\ errors[p] = <<>> /\ downloaded[p] = <<>>

\* The lines of a text, each without its line feed: what stands between
\* one line feed, or the start, and the next, or the end.
SplitLines(s) ==
    LET ends == {i \in 1..Len(s) : s[i] = "\n"}
                \cup (IF s # <<>> /\ s[Len(s)] # "\n"
                      THEN {Len(s) + 1} ELSE {})
        before(i) == {j \in ends : j < i}
        endOf(k) == CHOOSE i \in ends : Cardinality(before(i)) = k - 1
        startOf(k) == IF k = 1 THEN 1 ELSE endOf(k - 1) + 1
    IN  [k \in 1..Cardinality(ends) |-> SubSeq(s, startOf(k), endOf(k) - 1)]

\* A text with the backslash of every backslash-character pair taken out.
RECURSIVE Unescape(_)
Unescape(s) ==
    IF s = <<>>
    THEN <<>>
    ELSE IF Head(s) = "\\" /\ Len(s) >= 2
         THEN <<s[2]>> \o Unescape(SubSeq(s, 3, Len(s)))
         ELSE <<Head(s)>> \o Unescape(Tail(s))

IsEntry(line) == HasPrefix(line, BulletText)

HeaderLine(text) == SubSeq(text, 2, Len(text) - 1)

\* What the entries directly under a header line say, in order; none when
\* the header is not there.
SectionOf(lines, header) ==
    IF \A i \in 1..Len(lines) : lines[i] # header
    THEN <<>>
    ELSE LET i == CHOOSE i \in 1..Len(lines) : lines[i] = header
             n == CHOOSE n \in 0..(Len(lines) - i) :
                    /\ \A k \in 1..n : IsEntry(lines[i + k])
                    /\ i + n = Len(lines) \/ ~IsEntry(lines[i + n + 1])
         IN  [k \in 1..n |->
                Unescape(SubSeq(lines[i + k], Len(BulletText) + 1,
                                Len(lines[i + k])))]

\* C17: the message SendReport sends has, under the files header, one entry
\* for each name given to AddFile, in that order, under the errors header one
\* entry for each error given to AddError, in that order, no other entry, and
\* each header once when its list is non-empty and not at all when it is
\* empty.
C17_Step ==
    \A p \in Procs :
        Logged(p, "send") =>
            \A lines \in {SplitLines(events'[p][Len(events'[p])].arg)} :
                LET count(h) ==
                        Cardinality({k \in 1..Len(lines) : lines[k] = h})
                IN  /\ count(HeaderLine(FilesHeaderText))
                          = IF downloaded[p] = <<>> THEN 0 ELSE 1
                    /\ count(HeaderLine(ErrorsHeaderText))
                          = IF errors[p] = <<>> THEN 0 ELSE 1
                    /\ SectionOf(lines, HeaderLine(FilesHeaderText))
                          = downloaded[p]
                    /\ SectionOf(lines, HeaderLine(ErrorsHeaderText))
                          = [k \in 1..Len(errors[p]) |-> ErrorText(errors[p][k])]
                    /\ Cardinality({k \in 1..Len(lines) : IsEntry(lines[k])})
                          = Len(downloaded[p]) + Len(errors[p])

Specials(s) == {i \in 1..Len(s) : s[i] \in EscapeChars}

\* Where the i-th character of the input stands in the output of escape.
PlaceOf(s, i) == i + Cardinality({k \in Specials(s) : k <= i})

\* The output is the input with one backslash before each special character.
EscapedOnce(in, out) ==
    /\ Len(out) = Len(in) + Cardinality(Specials(in))
    /\ \A i \in 1..Len(in) :
          /\ out[PlaceOf(in, i)] = in[i]
          /\ i \in Specials(in) => out[PlaceOf(in, i) - 1] = "\\"
    /\ Unescape(out) = in

\* C18 as claimed: for every input string the output of escape is the input
\* with one backslash before each character of the escape set and nothing
\* else put in, taking the backslashes out gives the input back, and the
\* output is longer than the input by the number of special characters.
C18_EscapeOnlyAddsBackslashes ==
    epc = "returned" => EscapedOnce(eIn, eOut)

\* C18 as amended: that holds for every input that is valid UTF-8; of any
\* input, the output is what it holds for the input with U+FFFD in the place
\* of each byte that is not valid UTF-8.
C18_EscapeOfDecodedInput ==
    epc = "returned" =>
        EscapedOnce([i \in 1..Len(eIn) |-> DecodeRune(eIn[i])], eOut)

\* escape has returned for a valid input of the greatest length with a
\* special character and another one in it.
C18_Witness ==
    /\ epc = "returned"
    /\ Len(eIn) = MaxStrLen
    /\ \A i \in 1..Len(eIn) : eIn[i] # InvalidByte
    /\ \E i, j \in 1..Len(eIn) : eIn[i] = "\\" /\ eIn[j] \notin EscapeChars
    /\ Len(eOut) > Len(eIn)

\* The k-th listed file of a run: its mapping resolved, downloadFile
\* committed it, its DELETE was answered.
Resolved(p, k) == findLocal(files[p][k], RootMapping) # <<>>
Committed(p, k) ==
    \E i \in 1..Len(events[p]) :
        events[p][i].kind = "commit" /\ FileNoAt(events[p], i) = k
DeleteReturned(p, k) ==
    \E i \in 1..Len(events[p]) :
        events[p][i].kind = "deleted" /\ FileNoAt(events[p], i) = k
Good(p, k) == Resolved(p, k) /\ Committed(p, k) /\ DeleteReturned(p, k)

\* Of the first k listed files, the base names of the good ones and the
\* paths of the others, in listing order.
RECURSIVE NamesOfGood(_, _)
NamesOfGood(p, k) ==
    IF k = 0
    THEN <<>>
    ELSE NamesOfGood(p, k - 1)
         \o (IF Good(p, k) THEN <<Base(files[p][k])>> ELSE <<>>)

RECURSIVE PathsOfOthers(_, _)
PathsOfOthers(p, k) ==
    IF k = 0
    THEN <<>>
    ELSE PathsOfOthers(p, k - 1)
         \o (IF Good(p, k) THEN <<>> ELSE <<files[p][k]>>)

\* C19: when the loop over a listing of N files ends, no panic of the cleanup
\* having cut it short, downloaded and errors hold N entries together:
\* downloaded the base names of the files whose mapping resolved, whose
\* download committed and whose DELETE returned, errors one error for each
\* other file.
C19_Step ==
    \A p \in Procs :
        pc[p] = "loop" /\ pc'[p] = "defers"
            /\ CountKind(events[p], "fault") = 0 =>
                LET N == Len(files[p])
                IN  /\ Len(downloaded[p]) + Len(errors[p]) = N
                    /\ downloaded[p] = NamesOfGood(p, N)
                    /\ [k \in 1..Len(errors[p]) |-> errors[p][k].file]
                          = PathsOfOthers(p, N)
                    /\ downloaded'[p] = downloaded[p]
                    /\ errors'[p] = errors[p]

C19_OneEntryPerFile == [][C19_Step]_vars

\* The loop has ended for two files: the first is in downloaded, the DELETE
\* of the second failed.
C19_Witness ==
    \E p \in Procs :
        /\ pc[p] = "defers"
        /\ Len(files[p]) = MaxFiles
        /\ CountKind(events[p], "fault") = 0
        /\ downloaded[p] = <<Base(files[p][1])>>
        /\ errors[p] = <<Err("delete", files[p][2])>>
====
